---------------------------- MODULE Spec2Model ----------------------------
(***************************************************************************)
(* A model of langmem/utils.py: the namespace resolver (NamespaceTemplate), *)
(* the session formatter (format_sessions) and the variable healer         *)
(* (_get_var_healer).  Strings are sequences of one-character strings, so  *)
(* that the regular expressions of the source are modelled by what they    *)
(* match, character by character.                                          *)
(***************************************************************************)
EXTENDS Integers, Sequences, FiniteSets, TLC

VARIABLES
    vars,          \* _get_var_healer: the variable names, in the set's iteration order
    all_required,  \* _get_var_healer: the all_required flag
    var_to_uuid,   \* _get_var_healer: "{name}" -> opaque token
    input_string,  \* the string handed to the healer
    attrs,         \* tagged input only: the text between <TO_OPTIMIZE and >
    body,          \* tagged input only: the text between the two tags
    op,            \* the healer's position: "ready" or the call that was made
    result,        \* what the last call returned or raised
    previous,      \* the result of the call before the last one
    template,      \* NamespaceTemplate.template
    template_vars, \* NamespaceTemplate.vars: index -> key
    ambient,       \* the execution context get_config() reads
    config,        \* the argument of the last __call__
    consulted,     \* whether the last __call__ called get_config()
    ns_op,         \* the resolver's position: "built" or "called"
    ns_result,     \* what the last __call__ returned or raised
    sessions,      \* the argument of format_sessions
    ids_,          \* format_sessions: the ids drawn for the call
    fmt_op,        \* the formatter's position: "ready" or "formatted"
    fmt_result     \* what format_sessions returned or raised

healerVars == <<vars, all_required, var_to_uuid, input_string, attrs, body, op,
                result, previous>>

namespaceVars == <<template, template_vars, ambient, config, consulted, ns_op,
                   ns_result>>

sessionVars == <<sessions, ids_, fmt_op, fmt_result>>

allvars == <<healerVars, namespaceVars, sessionVars>>

-----------------------------------------------------------------------------
(* Bounds of the model.                                                     *)

\* the longest input of the escape specification, in characters
MaxLen == 5

\* the longest free-form healer input, in fragments
MaxFrags == 3

\* the longest body of a tagged input, in fragments
MaxBody == 3

\* the longest namespace template, in segments
MaxSegs == 4

\* the most sessions in one format_sessions call
MaxSessions == 2

-----------------------------------------------------------------------------
(* Strings.                                                                 *)

\* str.startswith at an offset: p occurs in s starting at index i
StartsWithAt(s, i, p) ==
    /\ i + Len(p) - 1 <= Len(s)
    /\ \A k \in 1..Len(p) : s[i + k - 1] = p[k]

\* Python's `p in s` for a non-empty p
Contains(s, p) == \E i \in 1..(Len(s) - Len(p) + 1) : StartsWithAt(s, i, p)

RECURSIVE Concat(_)
\* "".join(parts)
Concat(parts) ==
    IF parts = <<>> THEN <<>> ELSE Head(parts) \o Concat(Tail(parts))

RECURSIVE MatchesFrom(_, _, _)
\* the scan of re.sub from pos on: the leftmost index at or after pos where
\* the pattern matches, then on from the end of that match
MatchesFrom(ends, hits, pos) ==
    LET ahead == {i \in hits : i >= pos}
    IN  IF ahead = {} THEN <<>>
        ELSE LET i == CHOOSE x \in ahead : \A y \in ahead : x <= y
             IN  <<<<i, ends[i]>>>> \o MatchesFrom(ends, hits, ends[i])

\* The matches re.sub visits: left to right, not overlapping.  ends[i] is the
\* index after the match that starts at i, or 0 when the pattern does not
\* match at i; the result is the sequence of <<start, end>> spans.
FindAll(ends, pos) ==
    MatchesFrom(ends, {i \in 1..Len(ends) : ends[i] > 0}, pos)

RECURSIVE SubFrom(_, _, _, _, _)
SubFrom(s, spans, repl, k, pos) ==
    IF k > Len(spans) THEN SubSeq(s, pos, Len(s))
    ELSE SubSeq(s, pos, spans[k][1] - 1) \o repl[k]
             \o SubFrom(s, spans, repl, k + 1, spans[k][2])

\* re.sub: every span of s replaced by its replacement, the rest kept
Sub(s, spans, repl) == SubFrom(s, spans, repl, 1, 1)

-----------------------------------------------------------------------------
(* _get_var_healer.                                                         *)

\* f"{{{v}}}": the placeholder of a variable name
Placeholder(v) == <<"{">> \o v \o <<"}">>

TagOpen == <<"<", "T", "O", "_", "O", "P", "T", "I", "M", "I", "Z", "E">>

TagClose == <<"<", "/", "T", "O", "_", "O", "P", "T", "I", "M", "I", "Z", "E", ">">>

\* uuid.uuid4().hex: 32 lower-case hexadecimal digits, digit 13 is the version
\* 4 and digit 17 the variant.  Two values stand for the values drawn.
UuidLen == 32

Uuids ==
    { <<"3","f","2","b","8","c","1","e","9","d","4","a","4","f","6","b",
        "8","a","7","c","5","e","0","d","1","b","2","a","3","c","4","d">>,
      <<"a","1","b","2","c","3","d","4","e","5","f","6","4","a","7","b",
        "9","c","8","d","0","e","1","f","2","a","3","b","4","c","5","d">> }

\* the inverse maps a token to the bare name, without its braces
uuid_to_name ==
    [u \in {var_to_uuid[k] : k \in DOMAIN var_to_uuid} |->
        LET k == CHOOSE x \in DOMAIN var_to_uuid : var_to_uuid[x] = u
        IN  SubSeq(k, 2, Len(k) - 1)]

\* uuid_to_var = {v: k for k, v in var_to_uuid.items()}
uuid_to_var ==
    [u \in {var_to_uuid[k] : k \in DOMAIN var_to_uuid} |->
        CHOOSE k \in DOMAIN var_to_uuid : var_to_uuid[k] = u]

\* every "{" is matched, doubled or not: the lookarounds are missing
OpenBraceEndsAny(s) == [i \in 1..Len(s) |-> IF s[i] = "{" THEN i + 1 ELSE 0]

\* (?<!\{)\{(?!\{) at index i: a "{" with no "{" before or after it
OpenBraceEnds(s) ==
    [i \in 1..Len(s) |->
        IF /\ s[i] = "{"
           /\ (i = 1 \/ s[i - 1] # "{")
           /\ (i = Len(s) \/ s[i + 1] # "{")
        THEN i + 1 ELSE 0]

\* a "}" is never matched: the second substitution does nothing
CloseBraceEndsNone(s) == [i \in 1..Len(s) |-> 0]

\* (?<!\})\}(?!\}) at index i: a "}" with no "}" before or after it
CloseBraceEnds(s) ==
    [i \in 1..Len(s) |->
        IF /\ s[i] = "}"
           /\ (i = 1 \/ s[i - 1] # "}")
           /\ (i = Len(s) \/ s[i + 1] # "}")
        THEN i + 1 ELSE 0]

EscapeOpenSpans(s) == FindAll(OpenBraceEnds(s), 1)

EscapeCloseSpans(s) == FindAll(CloseBraceEnds(s), 1)

\* the replacement of every match: "{{", and "}}"
EscapeOpenRepl(spans) == [k \in 1..Len(spans) |-> <<"{", "{">>]

EscapeCloseRepl(spans) == [k \in 1..Len(spans) |-> <<"}", "}">>]

\* re.sub(r"(?<!\{)\{(?!\{)", "{{", input_string)
EscapeOpen(s) ==
    LET spans == EscapeOpenSpans(s)
    IN  Sub(s, spans, EscapeOpenRepl(spans))

\* re.sub(r"(?<!\})\}(?!\})", "}}", result)
EscapeClose(s) ==
    LET spans == EscapeCloseSpans(s)
    IN  Sub(s, spans, EscapeCloseRepl(spans))

escape(s) == EscapeClose(EscapeOpen(s))

\* mask_pattern: the placeholders, escaped, as alternatives in dict order; the
\* first alternative that matches at i wins
MaskEnds(s) ==
    [i \in 1..Len(s) |->
        LET hits == {k \in 1..Len(vars) : StartsWithAt(s, i, Placeholder(vars[k]))}
        IN  IF hits = {} THEN 0
            ELSE LET k == CHOOSE h \in hits : \A g \in hits : h <= g
                 IN  i + Len(Placeholder(vars[k]))]

MaskSpans(s) == FindAll(MaskEnds(s), 1)

\* lambda m: var_to_uuid[m.group(0)], for each match
MaskRepl(s, spans) ==
    [k \in 1..Len(spans) |-> var_to_uuid[SubSeq(s, spans[k][1], spans[k][2] - 1)]]

\* mask_pattern.sub(lambda m: var_to_uuid[m.group(0)], input_string)
mask(s) ==
    LET spans == MaskSpans(s)
    IN  Sub(s, spans, MaskRepl(s, spans))

\* unmask_pattern: the tokens as alternatives in dict order
UnmaskEnds(s) ==
    [i \in 1..Len(s) |->
        LET hits == {k \in 1..Len(vars) :
                        StartsWithAt(s, i, var_to_uuid[Placeholder(vars[k])])}
        IN  IF hits = {} THEN 0
            ELSE LET k == CHOOSE h \in hits : \A g \in hits : h <= g
                 IN  i + Len(var_to_uuid[Placeholder(vars[k])])]

UnmaskSpans(s) == FindAll(UnmaskEnds(s), 1)

\* lambda m: uuid_to_var[m.group(0)], for each match
UnmaskRepl(s, spans) ==
    [k \in 1..Len(spans) |-> uuid_to_var[SubSeq(s, spans[k][1], spans[k][2] - 1)]]

\* unmask_pattern.sub(lambda m: uuid_to_var[m.group(0)], input_string)
unmask(s) ==
    LET spans == UnmaskSpans(s)
    IN  Sub(s, spans, UnmaskRepl(s, spans))

\* <TO_OPTIMIZE.*> without the "?": an opening tag runs to the last ">"
StripEndsGreedy(s) ==
    [i \in 1..Len(s) |->
        IF StartsWithAt(s, i, TagOpen)
        THEN LET gts == {j \in (i + Len(TagOpen))..Len(s) : s[j] = ">"}
             IN  IF gts = {} THEN 0
                 ELSE (CHOOSE j \in gts : \A g \in gts : j >= g) + 1
        ELSE IF StartsWithAt(s, i, TagClose) THEN i + Len(TagClose)
        ELSE 0]

\* strip_to_optimize_pattern, <TO_OPTIMIZE.*?>|</TO_OPTIMIZE> with DOTALL: an
\* opening tag runs to the nearest ">" after it
StripEnds(s) ==
    [i \in 1..Len(s) |->
        IF StartsWithAt(s, i, TagOpen)
        THEN LET gts == {j \in (i + Len(TagOpen))..Len(s) : s[j] = ">"}
             IN  IF gts = {} THEN 0
                 ELSE (CHOOSE j \in gts : \A g \in gts : j <= g) + 1
        ELSE IF StartsWithAt(s, i, TagClose) THEN i + Len(TagClose)
        ELSE 0]

StripSpans(s) == FindAll(StripEnds(s), 1)

\* the replacement of every match: ""
StripRepl(spans) == [k \in 1..Len(spans) |-> <<>>]

\* strip_to_optimize_pattern.sub("", ...)
strip_to_optimize(s) ==
    LET spans == StripSpans(s)
    IN  Sub(s, spans, StripRepl(spans))

\* What a call gives: a returned string, or the ValueError with the names its
\* message lists ("Missing required variable: " + ", ".join(missing)).
Returned(s) == [ok |-> TRUE, value |-> s, missing |-> <<>>]

Raised(names) == [ok |-> FALSE, value |-> <<>>, missing |-> names]

\* only the first missing name is reported
assert_first_missing(s) ==
    IF ~all_required THEN Returned(s)
    ELSE LET Absent(v) == ~Contains(s, Placeholder(v))
             missing == SelectSeq(vars, Absent)
         IN  IF missing # <<>> THEN Raised(<<Head(missing)>>) ELSE Returned(s)

assert_all_required(s) ==
    IF ~all_required THEN Returned(s)
    ELSE LET Absent(v) == ~Contains(s, Placeholder(v))
             missing == SelectSeq(vars, Absent)
         IN  IF missing # <<>> THEN Raised(missing) ELSE Returned(s)

pipe(s) ==
    LET checked == assert_all_required(s)
    IN  IF ~checked.ok THEN checked
        ELSE Returned(unmask(strip_to_optimize(escape(mask(checked.value)))))

\* the callable _get_var_healer returns: escape for an empty variable set,
\* pipe otherwise
healer(s) == IF vars = <<>> THEN Returned(escape(s)) ELSE pipe(s)

-----------------------------------------------------------------------------
(* The healer's state machine: a healer is built, then called on a string.  *)

\* the orders in which a Python set of these names can be iterated
Orders(S) ==
    {q \in [1..Cardinality(S) -> S] : \A i, j \in DOMAIN q : q[i] = q[j] => i = j}

\* var_to_uuid = {f"{{{v}}}": uuid.uuid4().hex for v in vars}: one fresh
\* token for each placeholder
TokenMaps(order) ==
    {m \in [{Placeholder(order[k]) : k \in DOMAIN order} ->
                {u \in Uuids : Len(u) = UuidLen}] :
        \A x, y \in DOMAIN m : m[x] = m[y] => x = y}

\* _get_var_healer(vars, all_required) for a set of names
get_var_healer(names, required) ==
    /\ vars \in Orders(names)
    /\ all_required = required
    /\ var_to_uuid \in TokenMaps(vars)

A == <<"a">>

B == <<"b">>

Gt == <<">">>

\* What free-form inputs are made of: braces, a letter that is also a
\* variable name, a whole placeholder, the two tags and a ">".
Frags ==
    {<<"{">>, <<"}">>, B, Placeholder(A), Placeholder(B), TagOpen, <<">">>,
     TagClose}

FragSeqs(frags, n) == UNION {[1..k -> frags] : k \in 0..n}

Inputs == {Concat(fs) : fs \in FragSeqs(Frags, MaxFrags)}

\* What the inputs of mask and unmask are made of: as above without the
\* tags, and with strings in which a generated token itself occurs.
MaskFrags == {<<"{">>, <<"}">>, B, Placeholder(A), Placeholder(B)}

UuidInputs ==
    {Concat(<<f, u, g>>) : f \in {<<>>, Placeholder(A)}, u \in Uuids,
                           g \in {<<>>, B}}

MaskInputs == {Concat(fs) : fs \in FragSeqs(MaskFrags, MaxFrags)} \cup UuidInputs

NoResult == [ok |-> TRUE, value |-> <<>>, missing |-> <<>>]

\* the parts of the module a specification does not exercise stay as they are
IdleHealer ==
    /\ vars = <<>>
    /\ all_required = FALSE
    /\ var_to_uuid = <<>>
    /\ input_string = <<>>
    /\ attrs = <<>>
    /\ body = <<>>
    /\ op = "idle"
    /\ result = NoResult
    /\ previous = NoResult

IdleNamespace ==
    /\ template = <<>>
    /\ template_vars = <<>>
    /\ ambient = <<>>
    /\ config = <<>>
    /\ consulted = FALSE
    /\ ns_op = "idle"
    /\ ns_result = <<>>

IdleSessions ==
    /\ sessions = <<>>
    /\ ids_ = <<>>
    /\ fmt_op = "idle"
    /\ fmt_result = <<>>

InitHealer ==
    /\ \E names \in (SUBSET {A, B}) \ {{}} : \E required \in BOOLEAN :
           get_var_healer(names, required)
    /\ input_string \in Inputs
    /\ attrs = <<>>
    /\ body = <<>>
    /\ op = "ready"
    /\ result = NoResult
    /\ previous = NoResult
    /\ IdleNamespace
    /\ IdleSessions

\* the returned callable is applied to the input
Heal ==
    /\ op = "ready"
    /\ op' = "heal"
    /\ previous' = result
    /\ result' = healer(input_string)
    /\ UNCHANGED <<vars, all_required, var_to_uuid, input_string, attrs, body>>
    /\ UNCHANGED <<namespaceVars, sessionVars>>

\* the returned callable is applied to what it returned
HealAgain ==
    /\ op = "heal"
    /\ result.ok
    /\ op' = "heal_again"
    /\ previous' = result
    /\ result' = healer(result.value)
    /\ UNCHANGED <<vars, all_required, var_to_uuid, input_string, attrs, body>>
    /\ UNCHANGED <<namespaceVars, sessionVars>>

\* mask alone
Mask ==
    /\ op = "ready"
    /\ vars # <<>>
    /\ op' = "mask"
    /\ previous' = result
    /\ result' = Returned(mask(input_string))
    /\ UNCHANGED <<vars, all_required, var_to_uuid, input_string, attrs, body>>
    /\ UNCHANGED <<namespaceVars, sessionVars>>

\* unmask applied to a masked string
Unmask ==
    /\ op = "mask"
    /\ op' = "unmask"
    /\ previous' = result
    /\ result' = Returned(unmask(result.value))
    /\ UNCHANGED <<vars, all_required, var_to_uuid, input_string, attrs, body>>
    /\ UNCHANGED <<namespaceVars, sessionVars>>

NextHealer == Heal

SpecHealer == InitHealer /\ [][NextHealer]_allvars

\* The mask specification: the healer's mask and unmask steps on their own.
InitMask ==
    /\ \E names \in (SUBSET {A, B}) \ {{}} : \E required \in BOOLEAN :
           get_var_healer(names, required)
    /\ input_string \in MaskInputs
    /\ attrs = <<>>
    /\ body = <<>>
    /\ op = "ready"
    /\ result = NoResult
    /\ previous = NoResult
    /\ IdleNamespace
    /\ IdleSessions

NextMask == Mask \/ Unmask

SpecMask == InitMask /\ [][NextMask]_allvars

\* The escape specification: a healer for the empty variable set, called on
\* every string of at most MaxLen characters, and again on its own result.
Alphabet == {"{", "}", "a", "b", "c"}

Strings == UNION {[1..n -> Alphabet] : n \in 0..MaxLen}

InitEscape ==
    /\ \E required \in BOOLEAN : get_var_healer({}, required)
    /\ input_string \in Strings
    /\ attrs = <<>>
    /\ body = <<>>
    /\ op = "ready"
    /\ result = NoResult
    /\ previous = NoResult
    /\ IdleNamespace
    /\ IdleSessions

NextEscape == Heal \/ HealAgain

SpecEscape == InitEscape /\ [][NextEscape]_allvars

\* The tagged specification: the input is <TO_OPTIMIZE + attrs + > + body +
\* </TO_OPTIMIZE>, and a variable may be named ">".
AttrTexts ==
    {<<>>, <<" ", "n", "=", "'", "x", "'">>, <<"{">>, Placeholder(A), TagOpen}

BodyFrags == {<<"}">>, <<">">>, B, Placeholder(A), Placeholder(Gt), TagOpen}

Bodies == {Concat(fs) : fs \in FragSeqs(BodyFrags, MaxBody)}

InitTagged ==
    /\ \E names \in (SUBSET {A, Gt}) \ {{}} : \E required \in BOOLEAN :
           get_var_healer(names, required)
    /\ attrs \in AttrTexts
    /\ body \in Bodies
    /\ input_string = Concat(<<TagOpen, attrs, <<">">>, body, TagClose>>)
    /\ op = "ready"
    /\ result = NoResult
    /\ previous = NoResult
    /\ IdleNamespace
    /\ IdleSessions

NextTagged == Heal

SpecTagged == InitTagged /\ [][NextTagged]_allvars

-----------------------------------------------------------------------------
(* Where the characters of pipe's result come from.                         *)

Idx(n) == [i \in 1..n |-> i]

\* For a re.sub result, the index in s each character comes from: a kept
\* character from its own index, a replacement's characters from the first
\* index of the match they replace.
Origin(s, spans, repl) ==
    Sub(Idx(Len(s)), spans,
        [k \in 1..Len(spans) |-> [j \in 1..Len(repl[k]) |-> spans[k][1]]])

Compose(later, earlier) == [k \in 1..Len(later) |-> earlier[later[k]]]

\* pipe after the presence check, step by step as pipe composes them, with
\* the origin in s of every character
PipeTrace(s) ==
    LET sp1 == MaskSpans(s)
        r1  == MaskRepl(s, sp1)
        s1  == Sub(s, sp1, r1)
        o1  == Origin(s, sp1, r1)
        sp2 == EscapeOpenSpans(s1)
        r2  == EscapeOpenRepl(sp2)
        s2  == Sub(s1, sp2, r2)
        o2  == Compose(Origin(s1, sp2, r2), o1)
        sp3 == EscapeCloseSpans(s2)
        r3  == EscapeCloseRepl(sp3)
        s3  == Sub(s2, sp3, r3)
        o3  == Compose(Origin(s2, sp3, r3), o2)
        sp4 == StripSpans(s3)
        r4  == StripRepl(sp4)
        s4  == Sub(s3, sp4, r4)
        o4  == Compose(Origin(s3, sp4, r4), o3)
        sp5 == UnmaskSpans(s4)
        r5  == UnmaskRepl(s4, sp5)
        s5  == Sub(s4, sp5, r5)
        o5  == Compose(Origin(s4, sp5, r5), o4)
    IN  [out |-> s5, origin |-> o5, masked |-> sp1,
         escaped |-> s3, escapedOrigin |-> o3, stripped |-> sp4]

\* index i of the input lies in a tag the strip step removes
InRemovedTag(t, i) ==
    \E k \in 1..Len(t.escaped) :
        /\ t.escapedOrigin[k] = i
        /\ \E n \in 1..Len(t.stripped) :
               t.stripped[n][1] <= k /\ k < t.stripped[n][2]

\* the names of the healer, as a set
VarSet == {vars[k] : k \in 1..Len(vars)}

\* index i of s lies in an occurrence of a known placeholder
InPlaceholder(s, i) ==
    \E v \in VarSet : \E j \in 1..i :
        StartsWithAt(s, j, Placeholder(v)) /\ i < j + Len(Placeholder(v))

\* the single braces of s that belong to no known placeholder
StrayBraces(s) ==
    {i \in 1..Len(s) :
        /\ s[i] \in {"{", "}"}
        /\ (i = 1 \/ s[i - 1] # s[i])
        /\ (i = Len(s) \/ s[i + 1] # s[i])
        /\ ~InPlaceholder(s, i)}

\* the characters of t.out that come from index i are exactly text, in one piece
ComesOutAs(t, i, text) ==
    \E k \in 1..Len(t.out) :
        /\ {j \in 1..Len(t.out) : t.origin[j] = i} = k..(k + Len(text) - 1)
        /\ SubSeq(t.out, k, k + Len(text) - 1) = text

-----------------------------------------------------------------------------
(* The claims about the healer.                                             *)

\* C1: with all_required, pipe(S) raises exactly when some required {v} does
\* not occur in S; the error names every missing v and nothing is returned;
\* when every {v} occurs the check hands S on unchanged.
C1_MissingVariables ==
    (op = "heal" /\ vars # <<>> /\ all_required) =>
        LET absent == {v \in VarSet : ~Contains(input_string, Placeholder(v))}
        IN  /\ ~result.ok <=> absent # {}
            /\ ~result.ok =>
                   /\ {result.missing[k] : k \in 1..Len(result.missing)} = absent
                   /\ Len(result.missing) = Cardinality(absent)
                   /\ result.value = <<>>
            /\ absent = {} =>
                   assert_all_required(input_string) = Returned(input_string)

C1_Witness ==
    /\ op = "heal"
    /\ all_required
    /\ ~result.ok
    /\ Len(result.missing) = 2
    /\ input_string # <<>>

\* C2: with all_required, when every required {v} occurs in S, every
\* required {v} occurs in pipe(S).
C2_PlaceholdersSurvive ==
    (op = "heal" /\ vars # <<>> /\ all_required /\ result.ok) =>
        \A v \in VarSet : Contains(result.value, Placeholder(v))

\* C3: when pipe succeeds, every single brace of S that belongs to no known
\* placeholder and to no removed tag comes out doubled, and every masked
\* placeholder outside a removed tag comes out as it was.
C3_StrayBracesDoubled ==
    (op = "heal" /\ vars # <<>> /\ result.ok) =>
        LET t == PipeTrace(input_string)
        IN  /\ t.out = result.value
            /\ \A i \in StrayBraces(input_string) :
                   \/ InRemovedTag(t, i)
                   \/ ComesOutAs(t, i, <<input_string[i], input_string[i]>>)
            /\ \A n \in 1..Len(t.masked) :
                   \/ InRemovedTag(t, t.masked[n][1])
                   \/ ComesOutAs(t, t.masked[n][1],
                                 SubSeq(input_string, t.masked[n][1],
                                        t.masked[n][2] - 1))

\* {b}{a} with only a known comes out as {{b}}{a}
C3_Witness ==
    /\ op = "heal"
    /\ vars = <<A>>
    /\ input_string = Placeholder(B) \o Placeholder(A)
    /\ result.ok
    /\ result.value = <<"{", "{", "b", "}", "}">> \o Placeholder(A)

\* an occurrence of a generated token in s
HasToken(s) == \E k \in DOMAIN var_to_uuid : Contains(s, var_to_uuid[k])

\* C4: unmask(mask(S)) = S for every S that holds none of the tokens; the
\* mapping pairs the placeholders with distinct tokens, both ways; a string
\* without known placeholders is masked to itself.
C4_MaskRoundTrip ==
    /\ \A x, y \in DOMAIN var_to_uuid : var_to_uuid[x] = var_to_uuid[y] => x = y
    /\ DOMAIN var_to_uuid = {Placeholder(v) : v \in VarSet}
    /\ \A x \in DOMAIN var_to_uuid : uuid_to_var[var_to_uuid[x]] = x
    /\ (op = "unmask" /\ ~HasToken(input_string)) => result.value = input_string
    /\ (op = "mask" /\ \A v \in VarSet : ~Contains(input_string, Placeholder(v)))
           => result.value = input_string
    /\ op = "mask" =>
           LET spans == MaskSpans(input_string)
               from  == Origin(input_string, spans, MaskRepl(input_string, spans))
               Kept(i) == \A n \in 1..Len(spans) :
                              i < spans[n][1] \/ spans[n][2] <= i
           IN  /\ Len(from) = Len(result.value)
               /\ \A k \in 1..Len(from) :
                      /\ Kept(from[k]) => result.value[k] = input_string[from[k]]
                      /\ k < Len(from) => from[k] <= from[k + 1]
                      /\ (k < Len(from) /\ Kept(from[k])) => from[k] < from[k + 1]
               /\ {i \in 1..Len(input_string) : Kept(i)} \subseteq
                      {from[k] : k \in 1..Len(from)}

C4_Witness ==
    /\ op = "unmask"
    /\ Len(vars) = 2
    /\ input_string = <<"{">> \o Placeholder(A) \o Placeholder(B)
    /\ previous.value # input_string
    /\ result.value = input_string

\* C5: escape doubles every "{" that has no "{" next to it and every "}" that
\* has no "}" next to it, and leaves every other character as it is; escaping
\* an escaped string changes nothing; for the empty variable set the healer
\* is escape.
IsSingleBrace(s, i) ==
    /\ s[i] \in {"{", "}"}
    /\ (i = 1 \/ s[i - 1] # s[i])
    /\ (i = Len(s) \/ s[i + 1] # s[i])

SinglesDoubled(s) ==
    Concat([i \in 1..Len(s) |->
               IF IsSingleBrace(s, i) THEN <<s[i], s[i]>> ELSE <<s[i]>>])

C5_Escape ==
    /\ op = "heal" =>
           /\ result = Returned(SinglesDoubled(input_string))
           /\ (\A i \in 1..Len(input_string) : input_string[i] \notin {"{", "}"})
                  => result.value = input_string
    /\ op = "heal_again" => result = previous

C5_Witness ==
    /\ op = "heal_again"
    /\ input_string = <<"a", "{", "b", "}", "c">>
    /\ result.value = <<"a", "{", "{", "b", "}", "}", "c">>

\* the body holds every required placeholder
BodyCovers == \A v \in VarSet : Contains(body, Placeholder(v))

\* C6 as stated: for <TO_OPTIMIZE + ATTRS + > + BODY + </TO_OPTIMIZE>, ATTRS
\* without ">", BODY with every required {v} and no tag in it, pipe returns
\* what it returns for BODY.
C6_AsStated ==
    (/\ op = "heal"
     /\ ~Contains(attrs, <<">">>)
     /\ BodyCovers
     /\ StripSpans(body) = <<>>)
        => result = healer(body)

\* C6, amended: the same, for a BODY that holds no <TO_OPTIMIZE at all, closed
\* by a ">" or not, and no </TO_OPTIMIZE>, and for variable names without ">".
C6_TagStripped ==
    (/\ op = "heal"
     /\ ~Contains(attrs, <<">">>)
     /\ BodyCovers
     /\ ~Contains(body, TagOpen)
     /\ ~Contains(body, TagClose)
     /\ \A v \in VarSet : ~Contains(v, <<">">>))
        => /\ result.ok
           /\ result = healer(body)

\* <TO_OPTIMIZE n='x'>b{a}</TO_OPTIMIZE> pipes to b{a}
C6_Witness ==
    /\ op = "heal"
    /\ vars = <<A>>
    /\ attrs = <<" ", "n", "=", "'", "x", "'">>
    /\ body = B \o Placeholder(A)
    /\ result = Returned(B \o Placeholder(A))

-----------------------------------------------------------------------------
(* NamespaceTemplate.                                                       *)

\* Python's None, where a key is expected
None == <<"None">>

\* ns.strip("{}"): leading and trailing braces removed, all of them
strip_braces(ns) ==
    LET inner == {i \in 1..Len(ns) : ns[i] \notin {"{", "}"}}
    IN  IF inner = {} THEN <<>>
        ELSE SubSeq(ns, CHOOSE i \in inner : \A j \in inner : i <= j,
                        CHOOSE i \in inner : \A j \in inner : i >= j)

\* _get_key, for a string segment
get_key(ns) ==
    IF ns # <<>> /\ ns[1] = "{" THEN strip_braces(ns) ELSE None

\* NamespaceTemplate.__init__: self.vars, by index (from 1 here)
template_keys(tpl) ==
    [ix \in {i \in 1..Len(tpl) : get_key(tpl[i]) # None} |-> get_key(tpl[ix])]

\* A context argument: None, or a mapping from keys to values.
NoConfig == [none |-> TRUE, map |-> <<>>]

Mapping(m) == [none |-> FALSE, map |-> m]

\* bool(config): None and the empty mapping are false
Truthy(c) == ~c.none /\ DOMAIN c.map # {}

X == <<"x">>

Y == <<"y">>

Configs ==
    {NoConfig,
     Mapping(<<>>),
     Mapping("tags" :> <<>>),
     Mapping("configurable" :> <<>>),
     Mapping("configurable" :> (X :> <<"X">>)),
     Mapping("configurable" :> (X :> <<"X">> @@ Y :> <<"Y">>))}

\* the execution context: none, or one that resolves x and y
Ambients ==
    {NoConfig, Mapping("configurable" :> (X :> <<"A">> @@ Y :> <<"B">>))}

Segments ==
    {<<"a">>, <<"{", "x", "}">>, <<"{", "y", "}">>, <<"{", "x">>,
     <<"{", "{", "x", "}", "}">>}

Templates == UNION {[1..n -> Segments] : n \in 0..MaxSegs}

NsReturned(v) == [ok |-> TRUE, value |-> v, error |-> ""]

NsRaised(e) == [ok |-> FALSE, value |-> <<>>, error |-> e]

\* langgraph's get_config(): the context of the running task, a RuntimeError
\* outside of one
get_config == IF Truthy(ambient) THEN NsReturned(ambient) ELSE NsRaised("RuntimeError")

\* the body of __call__ once the context is known
resolve(cfg) ==
    IF DOMAIN template_vars # {}
    THEN LET configurable ==
                 IF "configurable" \in DOMAIN cfg.map THEN cfg.map["configurable"]
                 ELSE <<>>
         IN  [ix \in 1..Len(template) |->
                 IF ix \in DOMAIN template_vars
                 THEN IF template_vars[ix] \in DOMAIN configurable
                      THEN configurable[template_vars[ix]]
                      ELSE template[ix]
                 ELSE template[ix]]
    ELSE template

\* NamespaceTemplate.__call__(config)
call(c) ==
    IF Truthy(c) THEN NsReturned(resolve(c))
    ELSE LET got == get_config
         IN  IF got.ok THEN NsReturned(resolve(got.value)) ELSE got

InitNamespace ==
    /\ template \in Templates
    /\ template_vars = template_keys(template)
    /\ ambient \in Ambients
    /\ config = NoConfig
    /\ consulted = FALSE
    /\ ns_op = "built"
    /\ ns_result = NsReturned(<<>>)
    /\ IdleHealer
    /\ IdleSessions

Call ==
    /\ ns_op = "built"
    /\ \E c \in Configs :
           /\ config' = c
           /\ consulted' = ~Truthy(c)
           /\ ns_result' = call(c)
    /\ ns_op' = "called"
    /\ UNCHANGED <<template, template_vars, ambient>>
    /\ UNCHANGED <<healerVars, sessionVars>>

NextNamespace == Call

SpecNamespace == InitNamespace /\ [][NextNamespace]_allvars

\* a segment of the form {identifier}
IsPlaceholder(seg) ==
    /\ Len(seg) >= 3
    /\ seg[1] = "{"
    /\ seg[Len(seg)] = "}"
    /\ \A i \in 2..(Len(seg) - 1) : seg[i] \notin {"{", "}"}

\* the configurable mapping of a supplied context, empty when absent
ConfigurableOf(c) ==
    IF "configurable" \in DOMAIN c.map THEN c.map["configurable"] ELSE <<>>

\* C7: for every template and supplied context the call returns a tuple of
\* the template's length in which a {name} segment whose name is a key of
\* configurable is replaced by its value and every other segment is returned
\* as it is.
C7_AsStated ==
    (ns_op = "called" /\ ~config.none) =>
        /\ ns_result.ok
        /\ Len(ns_result.value) = Len(template)
        /\ \A i \in 1..Len(template) :
               LET seg  == template[i]
                   name == SubSeq(seg, 2, Len(seg) - 1)
               IN  ns_result.value[i] =
                       IF IsPlaceholder(seg) /\ name \in DOMAIN ConfigurableOf(config)
                       THEN ConfigurableOf(config)[name]
                       ELSE seg

\* C10: with a supplied context, empty or not, get_config() is not called and
\* the call does not fail for want of a context; that failure needs an
\* omitted argument and no ambient context.
C10_AsStated ==
    /\ (ns_op = "called" /\ ~config.none) =>
           /\ ~consulted
           /\ ns_result.error # "RuntimeError"
    /\ (ns_op = "called" /\ ns_result.error = "RuntimeError") =>
           /\ config.none
           /\ ~Truthy(ambient)

-----------------------------------------------------------------------------
(* format_sessions.                                                         *)

\* Python values, as far as format_sessions tells them apart: the type, then
\* the elements of a list or tuple, the text of a string, the name of a message
PyList(v) == <<"list">> \o v

PyTuple(v) == <<"tuple">> \o v

PyStr(s) == <<"str", s>>

Message(name) == <<"message", name>>

\* type(x)
TypeOf(x) == x[1]

\* the elements of a list or tuple
Items(x) == Tail(x)

\* the text of a string, the name of a message
TextOf(x) == x[2]

\* bool(x): an empty list, tuple or string is false
IsTrue(x) ==
    IF TypeOf(x) = "str" THEN TextOf(x) # ""
    ELSE IF TypeOf(x) \in {"list", "tuple"} THEN Items(x) # <<>>
    ELSE TRUE

\* The result is a string made of pieces: literal text, an id, a feedback
\* text, or the transcript get_conversation renders for a session.
Lit(s) == <<"lit", s>>

IdPiece(id) == <<"id", id>>

Text(f) == <<"text", TextOf(f)>>

\* get_conversation: merge_message_runs and pretty_repr are the message
\* library's; the transcript of a session is one piece that names its messages
get_conversation(session) ==
    IF TypeOf(session) = "list"
    THEN <<"conversation">>
             \o [i \in 1..Len(Items(session)) |-> TextOf(Items(session)[i])]
    ELSE <<"conversation", TextOf(session)>>

RECURSIVE JoinBlocks(_)
\* "\n\n".join(acc)
JoinBlocks(acc) ==
    IF acc = <<>> THEN <<>>
    ELSE IF Len(acc) = 1 THEN acc[1]
    ELSE acc[1] \o <<Lit("\n\n")>> \o JoinBlocks(Tail(acc))

\* the block always carries a feedback part, empty feedback or not
format_block_always(id, session, feedback) ==
    <<Lit("<session_"), IdPiece(id), Lit(">\n"), get_conversation(session)>>
        \o <<Lit("\n\nFeedback for session "), IdPiece(id),
             Lit(":\n<FEEDBACK>\n"), Text(feedback), Lit("\n</FEEDBACK>")>>
        \o <<Lit("\n</session_"), IdPiece(id), Lit(">")>>

\* one turn of the loop: the block of a session
format_block(id, session, feedback) ==
    <<Lit("<session_"), IdPiece(id), Lit(">\n"), get_conversation(session)>>
        \o (IF IsTrue(feedback)
            THEN <<Lit("\n\nFeedback for session "), IdPiece(id),
                   Lit(":\n<FEEDBACK>\n"), Text(feedback), Lit("\n</FEEDBACK>")>>
            ELSE <<>>)
        \o <<Lit("\n</session_"), IdPiece(id), Lit(">")>>

\* the isinstance chain: what the loop iterates over
normalize(s) ==
    IF TypeOf(s) = "str" THEN <<PyTuple(<<s, PyStr("")>>)>>
    ELSE IF TypeOf(s) = "list" /\ TypeOf(Items(s)[1]) = "list"
         THEN [i \in 1..Len(Items(s)) |-> PyTuple(<<Items(s)[i], PyStr("")>>)]
    ELSE IF TypeOf(s) = "tuple" /\ TypeOf(Items(s)[1]) = "list" THEN <<s>>
    ELSE Items(s)

\* `(session, feedback) = e` works for a list or tuple of two elements; a
\* message does not unpack into two
Unpacks(e) == TypeOf(e) \in {"list", "tuple"} /\ Len(Items(e)) = 2

FmtReturned(v) == [ok |-> TRUE, value |-> v, error |-> ""]

FmtRaised(e) == [ok |-> FALSE, value |-> <<>>, error |-> e]

\* format_sessions(sessions), with the ids uuid4 gives
format_sessions(s, ids) ==
    IF ~IsTrue(s) THEN FmtReturned(<<>>)
    ELSE LET items == normalize(s)
         IN  IF \E i \in 1..Len(items) : ~Unpacks(items[i])
             THEN FmtRaised("ValueError")
             ELSE FmtReturned(JoinBlocks(
                      [i \in 1..Len(items) |->
                          format_block(ids[i], Items(items[i])[1],
                                       Items(items[i])[2])]))

\* uuid.uuid4().hex for each item: fresh, so different from each other
IdPool == {ToString(i) : i \in 1..(MaxSessions + 1)}

FreshIds(n) ==
    {q \in [1..n -> IdPool] : \A i, j \in 1..n : q[i] = q[j] => i = j}

M1 == Message("m1")

M2 == Message("m2")

Session == {PyList(<<>>), PyList(<<M1>>), PyList(<<M1, M2>>)}

Feedback == {PyStr(""), PyStr("good")}

Pair == {PyTuple(<<s, f>>) : s \in Session, f \in Feedback}

ListsOf(S) == {PyList(q) : q \in UNION {[1..n -> S] : n \in 1..MaxSessions}}

\* the four documented shapes, the empty list, and a string
SessionInputs ==
    Session \cup ListsOf(Session) \cup Pair \cup ListsOf(Pair) \cup {PyStr("s")}

InitSessions ==
    /\ sessions \in SessionInputs
    /\ ids_ = <<>>
    /\ fmt_op = "ready"
    /\ fmt_result = FmtReturned(<<>>)
    /\ IdleHealer
    /\ IdleNamespace

Format ==
    /\ fmt_op = "ready"
    /\ fmt_op' = "formatted"
    /\ \E ids \in FreshIds(IF IsTrue(sessions) THEN Len(normalize(sessions)) ELSE 0) :
           /\ ids_' = ids
           /\ fmt_result' = format_sessions(sessions, ids)
    /\ UNCHANGED sessions
    /\ UNCHANGED <<healerVars, namespaceVars>>

NextSessions == Format

SpecSessions == InitSessions /\ [][NextSessions]_allvars

\* the shape of an argument, as the contract names them
IsSession(x) ==
    /\ TypeOf(x) = "list"
    /\ \A i \in 1..Len(Items(x)) : TypeOf(Items(x)[i]) = "message"

IsPair(x) ==
    /\ TypeOf(x) = "tuple"
    /\ Len(Items(x)) = 2
    /\ IsSession(Items(x)[1])
    /\ TypeOf(Items(x)[2]) = "str"

Shape(x) ==
    IF IsSession(x) /\ Items(x) # <<>> THEN "session"
    ELSE IF /\ TypeOf(x) = "list"
            /\ Items(x) # <<>>
            /\ \A i \in 1..Len(Items(x)) : IsSession(Items(x)[i])
         THEN "sessions"
    ELSE IF IsPair(x) THEN "pair"
    ELSE IF /\ TypeOf(x) = "list"
            /\ Items(x) # <<>>
            /\ \A i \in 1..Len(Items(x)) : IsPair(Items(x)[i])
         THEN "pairs"
    ELSE "other"

\* the pairs the contract says each shape stands for: <<session, feedback>>
PairsOf(x) ==
    IF Shape(x) = "session" THEN <<<<x, PyStr("")>>>>
    ELSE IF Shape(x) = "sessions"
         THEN [i \in 1..Len(Items(x)) |-> <<Items(x)[i], PyStr("")>>]
    ELSE IF Shape(x) = "pair" THEN <<<<Items(x)[1], Items(x)[2]>>>>
    ELSE [i \in 1..Len(Items(x)) |-> <<Items(Items(x)[i])[1], Items(Items(x)[i])[2]>>]

\* the block of the contract: <session_ID>, newline, the transcript, the
\* feedback part when there is feedback, newline, </session_ID>
BlockOf(id, pair) ==
    LET open  == <<Lit("<session_"), IdPiece(id), Lit(">\n")>>
        fb    == <<Lit("\n\nFeedback for session "), IdPiece(id),
                   Lit(":\n<FEEDBACK>\n"), <<"text", TextOf(pair[2])>>,
                   Lit("\n</FEEDBACK>")>>
        close == <<Lit("\n</session_"), IdPiece(id), Lit(">")>>
    IN  open \o <<get_conversation(pair[1])>>
             \o (IF TextOf(pair[2]) # "" THEN fb ELSE <<>>) \o close

RECURSIVE BlocksOf(_, _)
\* the blocks of the pairs in order, a blank line between two of them
BlocksOf(ids, pairs) ==
    IF pairs = <<>> THEN <<>>
    ELSE BlockOf(Head(ids), Head(pairs))
             \o (IF Len(pairs) > 1 THEN <<Lit("\n\n")>> ELSE <<>>)
             \o BlocksOf(Tail(ids), Tail(pairs))

\* how often a piece occurs in a string of pieces
Count(pieces, piece) == Cardinality({k \in 1..Len(pieces) : pieces[k] = piece})

\* C8: each of the four shapes is accepted and formatted as the pairs it
\* stands for; in particular a bare session is formatted as [(session, "")].
C8_AsStated ==
    (fmt_op = "formatted" /\ Shape(sessions) # "other") =>
        /\ fmt_result.ok
        /\ Len(ids_) = Len(PairsOf(sessions))
        /\ fmt_result.value = BlocksOf(ids_, PairsOf(sessions))

\* C9: empty input gives the empty string; n >= 1 pairs give n blocks in
\* input order, a blank line between them, block i opened and closed with
\* id i; the ids of a call differ; a block has the feedback part, introduced
\* with its own id, exactly when its feedback is not empty.
C9_OutputStructure ==
    /\ (fmt_op = "formatted" /\ ~IsTrue(sessions)) => fmt_result = FmtReturned(<<>>)
    /\ (fmt_op = "formatted" /\ Shape(sessions) \in {"pairs", "pair", "sessions"}) =>
           LET pairs == PairsOf(sessions)
           IN  /\ fmt_result.ok
               /\ Len(ids_) = Len(pairs)
               /\ \A i, j \in 1..Len(ids_) : ids_[i] = ids_[j] => i = j
               /\ fmt_result.value = BlocksOf(ids_, pairs)
               /\ Count(fmt_result.value, Lit("\n\n")) = Len(pairs) - 1
               /\ Count(fmt_result.value, Lit(":\n<FEEDBACK>\n"))
                      = Cardinality({i \in 1..Len(pairs) : TextOf(pairs[i][2]) # ""})

\* two pairs, the first with feedback "good", the second without
C9_Witness ==
    /\ fmt_op = "formatted"
    /\ sessions = PyList(<<PyTuple(<<PyList(<<M1>>), PyStr("good")>>),
                           PyTuple(<<PyList(<<M1, M2>>), PyStr("")>>)>>)
    /\ fmt_result.ok
    /\ Count(fmt_result.value, <<"text", "good">>) = 1
    /\ Count(fmt_result.value, Lit("<session_")) = 2

=============================================================================
